---- MODULE Spec2Model ----
(***************************************************************************)
(* State-machine model of the wifi-analyzer front end:                     *)
(*   - the scan coordinator of src/routes/+page.svelte (performScan, its   *)
(*     progress-event listener and the reactive occupancy request), and    *)
(*   - the capture session of src/components/PacketSniffer.svelte          *)
(*     (startCapture, stopCapture, the polling timer, the interface        *)
(*     reset block and onDestroy).                                         *)
(* Every asynchronous engine call is split at its await: one action for    *)
(* the part of the handler that runs up to the await, one action per       *)
(* outcome (resolve / reject) for the continuation.  Handlers are          *)
(* callable whenever the component is alive; their guards are the          *)
(* conditions and early returns of the handler code.                       *)
(***************************************************************************)
EXTENDS Integers, Sequences, FiniteSets, Bags, TLC

\* ---------------------------------------------------------------- bounds
MaxBatch == 2          \* longest batch of records in one event / result
MaxObs == 3            \* observations delivered during one scan
MaxListeners == 2      \* live progress subscriptions
MaxRecompute == 2      \* reactive getChannelData calls in flight
MaxTimers == 2         \* live interval timers
MaxStartPending == 2   \* startPacketCapture calls in flight
MaxStopPending == 1    \* stopPacketCapture calls in flight
MaxPollPending == 2    \* getLatestPackets calls in flight
MaxBuffer == 2         \* packets held in the buffer
MaxPollBatch == 1      \* packets returned by one poll
PageBufferCap == 25    \* packets held in the buffer when paging is examined
MaxChannelData == 2    \* entries of the channelData handed to the rating view

\* ------------------------------------------------------- program constants
packetsPerPage == 10
ChannelCount == 13      \* Array.from({ length: 13 }, ...)

\* ---------------------------------------------------------- input domains
BSSIDs == {"A", "B"}
Channels == {6, 11}
Interfaces == {"wlan0", "eth0"}
Timestamps == {1, 2}

\* occupancy is held in hundredths: 30 stands for 0.3
RatingChannels == {6, 13, 14}
Occupancies == {29, 30, 49, 50, 69, 70}
ChannelData == [channel : RatingChannels, occupancy : Occupancies]

\* WiFiNetwork, reduced to its identity and one overwritable field
WiFiNetwork == [bssid : BSSIDs, channel : Channels]

SeqsUpTo(S, n) == UNION {[1..k -> S] : k \in 0..n}

NetworkBatches == SeqsUpTo(WiFiNetwork, MaxBatch)
PacketBatches == SeqsUpTo(Timestamps, MaxPollBatch)
\* listDevices() answers with a list of distinct interface names
\* channelData handed to ChannelRating and ChannelGraph: any list, also one
\* with repeated channels or channels outside 1..13
RatingInputs == SeqsUpTo(ChannelData, MaxChannelData)
DeviceLists == {d \in SeqsUpTo(Interfaces, Cardinality(Interfaces)) :
                  \A i, j \in 1..Len(d) : i # j => d[i] # d[j]}

VARIABLES
  \* +page.svelte
  networks,            \* published snapshot
  uniqueNetworks,      \* Map<bssid, WiFiNetwork>, in insertion order
  channelData,         \* channel metrics held by the page
  isScanning,
  scanPc,              \* await at which the performScan call is suspended
  channelReq,          \* argument of the awaited getChannelData call
  listeners,           \* live "wifi_scan_progress" subscriptions
  observed,            \* history: records of this scan, in arrival order
  recomputeReqs,       \* reactive getChannelData calls in flight: the bag of
                       \* the answers the engine will give to them
  \* PacketSniffer.svelte
  mountPc,             \* onMount: "loading" until listDevices settles
  availableInterfaces,
  interfaceName,
  isCapturing,
  error,
  updateInterval,      \* last handle returned by setInterval, 0 = undefined
  timers,              \* handles of the interval timers that are running
  startPending,        \* startPacketCapture calls in flight
  stopPending,         \* stopPacketCapture calls in flight
  pollPending,         \* getLatestPackets calls in flight
  allPackets,
  displayedPackets,
  currentPage,
  destroyed,
  \* ChannelRating.svelte
  sortBy,
  \* history: name of the last handler or continuation that ran
  op,
  \* history: the packets of the poll response just handled, <<>> otherwise
  polled

scanVars == <<networks, uniqueNetworks, channelData, isScanning, scanPc,
              channelReq, listeners, observed, recomputeReqs>>
captureVars == <<mountPc, availableInterfaces, interfaceName, isCapturing,
                 error, updateInterval, timers, startPending, stopPending,
                 pollPending, allPackets, displayedPackets, currentPage,
                 destroyed>>
ratingVars == <<sortBy>>
vars == <<scanVars, captureVars, ratingVars, op, polled>>

\* ====================================================== +page.svelte

\* variant of MapSet that keeps the first observation of a key
MapSet_keepFirst(map, r) ==
  IF \E i \in 1..Len(map) : map[i].bssid = r.bssid
  THEN map
  ELSE Append(map, r)

\* Map.prototype.set: overwrite in place, or append a new key
MapSet(map, r) ==
  IF \E i \in 1..Len(map) : map[i].bssid = r.bssid
  THEN [i \in 1..Len(map) |-> IF map[i].bssid = r.bssid THEN r ELSE map[i]]
  ELSE Append(map, r)

\* batch.forEach((network) => uniqueNetworks.set(network.bssid, network))
RECURSIVE SetAll(_, _)
SetAll(map, batch) ==
  IF batch = <<>> THEN map
  ELSE SetAll(MapSet(map, Head(batch)), Tail(batch))

\* the event is handed to every live subscription, one after the other
RECURSIVE RunListeners(_, _, _)
RunListeners(n, map, batch) ==
  IF n = 0 THEN map
  ELSE RunListeners(n - 1, SetAll(map, batch), batch)

\* the channels of s, in ascending order
RECURSIVE Ascending(_)
Ascending(S) ==
  IF S = {} THEN <<>>
  ELSE LET m == CHOOSE x \in S : \A y \in S : x <= y
       IN  <<m>> \o Ascending(S \ {m})

\* the engine's get_channel_data: one entry per channel in use, the
\* occupancy growing with the number of networks on the channel
get_channel_data(nets) ==
  LET used == Ascending({nets[i].channel : i \in 1..Len(nets)})
  IN  [k \in 1..Len(used) |->
         [channel |-> used[k],
          occupancy |->
            10 * Cardinality({i \in 1..Len(nets) : nets[i].channel = used[k]})]]

\* finally { isScanning = false }
ScanFinally ==
  /\ isScanning' = FALSE
  /\ scanPc' = "idle"
  /\ channelReq' = <<>>

\* $: { getChannelData(networks).then(...) }: the block runs after every
\* assignment to networks and issues a call for the snapshot just assigned
Recompute(snapshot) ==
  /\ BagCardinality(recomputeReqs) < MaxRecompute
  /\ recomputeReqs' = recomputeReqs (+) SetToBag({get_channel_data(snapshot)})

\* variant of performScan that empties the snapshot but not the store
performScan_keepsStore ==
  /\ op' = "performScan"
  /\ polled' = <<>>
  /\ IF isScanning
     THEN UNCHANGED scanVars
     ELSE /\ listeners < MaxListeners
          /\ isScanning' = TRUE
          /\ networks' = <<>>
          /\ scanPc' = "listen"
          /\ observed' = <<>>
          /\ Recompute(networks')
          /\ UNCHANGED <<uniqueNetworks, channelData, channelReq, listeners>>
  /\ UNCHANGED <<captureVars, ratingVars>>

\* variant of performScan without the early return on isScanning
performScan_noGuard ==
  /\ op' = "performScan"
  /\ polled' = <<>>
  /\ listeners < MaxListeners
  /\ isScanning' = TRUE
  /\ networks' = <<>>
  /\ uniqueNetworks' = <<>>
  /\ scanPc' = "listen"
  /\ observed' = <<>>
  /\ Recompute(networks')
  /\ UNCHANGED <<channelData, channelReq, listeners>>
  /\ UNCHANGED <<captureVars, ratingVars>>

\* performScan, up to `await listen(...)`
performScan ==
  /\ op' = "performScan"
  /\ polled' = <<>>
  /\ IF isScanning
     THEN UNCHANGED scanVars
     ELSE /\ listeners < MaxListeners
          /\ isScanning' = TRUE
          /\ networks' = <<>>
          /\ uniqueNetworks' = <<>>
          /\ scanPc' = "listen"
          /\ observed' = <<>>
          /\ Recompute(networks')
          /\ UNCHANGED <<channelData, channelReq, listeners>>
  /\ UNCHANGED <<captureVars, ratingVars>>

\* listen() resolved: the subscription is live, scanWifi() is issued
ListenResolve ==
  /\ scanPc = "listen"
  /\ op' = "ListenResolve"
  /\ polled' = <<>>
  /\ listeners' = listeners + 1
  /\ scanPc' = "scan"
  /\ UNCHANGED <<networks, uniqueNetworks, channelData, isScanning,
                 channelReq, observed, recomputeReqs>>
  /\ UNCHANGED <<captureVars, ratingVars>>

\* listen() rejected: catch, finally
ListenReject ==
  /\ scanPc = "listen"
  /\ op' = "ListenReject"
  /\ polled' = <<>>
  /\ ScanFinally
  /\ UNCHANGED <<networks, uniqueNetworks, channelData, listeners, observed,
                 recomputeReqs>>
  /\ UNCHANGED <<captureVars, ratingVars>>

\* a "wifi_scan_progress" event, pushed while the engine is scanning
ProgressEvent(batch) ==
  /\ scanPc = "scan"
  /\ Len(observed) + Len(batch) <= MaxObs
  /\ op' = "ProgressEvent"
  /\ polled' = <<>>
  /\ uniqueNetworks' = RunListeners(listeners, uniqueNetworks, batch)
  /\ networks' = uniqueNetworks'
  /\ Recompute(networks')
  /\ observed' = observed \o batch
  /\ UNCHANGED <<channelData, isScanning, scanPc, channelReq, listeners>>
  /\ UNCHANGED <<captureVars, ratingVars>>

\* scanWifi() resolved with the final batch
ScanResolve(finalNetworks) ==
  /\ scanPc = "scan"
  /\ Len(observed) + Len(finalNetworks) <= MaxObs
  /\ op' = "ScanResolve"
  /\ polled' = <<>>
  /\ observed' = observed \o finalNetworks
  /\ IF Len(finalNetworks) > 0
     THEN /\ uniqueNetworks' = SetAll(uniqueNetworks, finalNetworks)
          /\ networks' = uniqueNetworks'
          /\ Recompute(networks')
     ELSE UNCHANGED <<uniqueNetworks, networks, recomputeReqs>>
  /\ IF Len(networks') > 0
     THEN \* await getChannelData(networks)
          /\ scanPc' = "channel"
          /\ channelReq' = networks'
          /\ UNCHANGED <<isScanning, listeners>>
     ELSE \* unlisten(); finally
          /\ listeners' = listeners - 1
          /\ ScanFinally
  /\ UNCHANGED channelData
  /\ UNCHANGED <<captureVars, ratingVars>>

\* variant of ScanReject whose flag reset sits in the try block, not in finally
ScanReject_noFinally ==
  /\ scanPc = "scan"
  /\ op' = "ScanReject"
  /\ polled' = <<>>
  /\ scanPc' = "idle"
  /\ channelReq' = <<>>
  /\ UNCHANGED <<networks, uniqueNetworks, channelData, isScanning,
                 listeners, observed, recomputeReqs>>
  /\ UNCHANGED <<captureVars, ratingVars>>

\* variant of ScanReject whose catch block resets the store and the snapshot
ScanReject_clears ==
  /\ scanPc = "scan"
  /\ op' = "ScanReject"
  /\ polled' = <<>>
  /\ ScanFinally
  /\ networks' = <<>>
  /\ uniqueNetworks' = <<>>
  /\ UNCHANGED <<channelData, listeners, observed, recomputeReqs>>
  /\ UNCHANGED <<captureVars, ratingVars>>

\* scanWifi() rejected: catch, finally (unlisten() is skipped)
ScanReject ==
  /\ scanPc = "scan"
  /\ op' = "ScanReject"
  /\ polled' = <<>>
  /\ ScanFinally
  /\ UNCHANGED <<networks, uniqueNetworks, channelData, listeners, observed,
                 recomputeReqs>>
  /\ UNCHANGED <<captureVars, ratingVars>>

\* the awaited getChannelData() resolved: store, unlisten(), finally
ChannelResolve ==
  /\ scanPc = "channel"
  /\ op' = "ChannelResolve"
  /\ polled' = <<>>
  /\ channelData' = get_channel_data(channelReq)
  /\ listeners' = listeners - 1
  /\ ScanFinally
  /\ UNCHANGED <<networks, uniqueNetworks, observed, recomputeReqs>>
  /\ UNCHANGED <<captureVars, ratingVars>>

\* the awaited getChannelData() rejected: catch, finally
ChannelReject ==
  /\ scanPc = "channel"
  /\ op' = "ChannelReject"
  /\ polled' = <<>>
  /\ ScanFinally
  /\ UNCHANGED <<networks, uniqueNetworks, channelData, listeners, observed,
                 recomputeReqs>>
  /\ UNCHANGED <<captureVars, ratingVars>>

\* one of the reactive getChannelData calls in flight resolved, whichever
\* was issued first: .then((data) => { channelData = data; })
RecomputeResolve(data) ==
  /\ data \in BagToSet(recomputeReqs)
  /\ op' = "RecomputeResolve"
  /\ polled' = <<>>
  /\ channelData' = data
  /\ recomputeReqs' = recomputeReqs (-) SetToBag({data})
  /\ UNCHANGED <<networks, uniqueNetworks, isScanning, scanPc, channelReq,
                 listeners, observed>>
  /\ UNCHANGED <<captureVars, ratingVars>>

\* ====================================================== PacketSniffer.svelte

\* handle returned by setInterval: one that names no timer, past or running
FreshTimer ==
  CHOOSE i \in 1..(MaxTimers + 1) :
    /\ i \notin timers \cup {updateInterval}
    /\ \A j \in 1..(i - 1) : j \in timers \cup {updateInterval}

\* clearInterval(handle)
ClearInterval(running, handle) == running \ {handle}

\* [...].sort((a, b) => b.timestamp - a.timestamp), by insertion
RECURSIVE InsertDesc(_, _)
InsertDesc(sorted, p) ==
  IF sorted = <<>> THEN <<p>>
  ELSE IF Head(sorted) >= p
       THEN <<Head(sorted)>> \o InsertDesc(Tail(sorted), p)
       ELSE <<p>> \o sorted

RECURSIVE SortDesc(_)
SortDesc(s) ==
  IF s = <<>> THEN <<>>
  ELSE InsertDesc(SortDesc(SubSeq(s, 1, Len(s) - 1)), s[Len(s)])

\* Array.prototype.slice(start, end), 0-based, clipped to the array
Slice(s, start, end) ==
  LET lo == IF start > Len(s) THEN Len(s) ELSE start
      hi == IF end > Len(s) THEN Len(s) ELSE end
  IN  IF hi <= lo THEN <<>> ELSE SubSeq(s, lo + 1, hi)

\* variant of DisplayedOf that takes the page number as a 0-based index
DisplayedOf_zeroBased(buffer, page) ==
  LET startIndex == page * packetsPerPage
  IN  Slice(buffer, startIndex, startIndex + packetsPerPage)

\* updateDisplayedPackets, applied to the buffer and page given
DisplayedOf(buffer, page) ==
  LET startIndex == (page - 1) * packetsPerPage
  IN  Slice(buffer, startIndex, startIndex + packetsPerPage)

\* $: if (interfaceName) { ... }, run when interfaceName has changed
InterfaceReset ==
  /\ allPackets' = <<>>
  /\ currentPage' = 1
  /\ displayedPackets' = <<>>

\* onMount: listDevices() resolved
MountResolve(devices) ==
  /\ mountPc = "loading"
  /\ op' = "MountResolve"
  /\ polled' = <<>>
  /\ mountPc' = "ready"
  /\ availableInterfaces' = devices
  /\ IF Len(devices) > 0
     THEN /\ interfaceName' = devices[1]
          /\ IF ~destroyed
             THEN InterfaceReset
             ELSE UNCHANGED <<allPackets, currentPage, displayedPackets>>
     ELSE UNCHANGED <<interfaceName, allPackets, currentPage,
                      displayedPackets>>
  /\ UNCHANGED <<isCapturing, error, updateInterval, timers, startPending,
                 stopPending, pollPending, destroyed>>
  /\ UNCHANGED <<scanVars, ratingVars>>

\* onMount: listDevices() rejected
MountReject ==
  /\ mountPc = "loading"
  /\ op' = "MountReject"
  /\ polled' = <<>>
  /\ mountPc' = "ready"
  /\ error' = "init"
  /\ UNCHANGED <<availableInterfaces, interfaceName, isCapturing,
                 updateInterval, timers, startPending, stopPending,
                 pollPending, allPackets, displayedPackets, currentPage,
                 destroyed>>
  /\ UNCHANGED <<scanVars, ratingVars>>

\* variant of selectInterface whose reset block leaves the page number alone
selectInterface_keepsPage(iface) ==
  /\ ~destroyed
  /\ iface \in {availableInterfaces[i] : i \in 1..Len(availableInterfaces)}
  /\ iface # interfaceName
  /\ op' = "selectInterface"
  /\ polled' = <<>>
  /\ interfaceName' = iface
  /\ allPackets' = <<>>
  /\ displayedPackets' = <<>>
  /\ UNCHANGED <<mountPc, availableInterfaces, isCapturing, error,
                 updateInterval, timers, startPending, stopPending,
                 pollPending, currentPage, destroyed>>
  /\ UNCHANGED <<scanVars, ratingVars>>

\* variant of selectInterface whose reset block runs only while capturing
selectInterface_resetWhenCapturing(iface) ==
  /\ ~destroyed
  /\ iface \in {availableInterfaces[i] : i \in 1..Len(availableInterfaces)}
  /\ iface # interfaceName
  /\ op' = "selectInterface"
  /\ polled' = <<>>
  /\ interfaceName' = iface
  /\ IF isCapturing
     THEN InterfaceReset
     ELSE UNCHANGED <<allPackets, currentPage, displayedPackets>>
  /\ UNCHANGED <<mountPc, availableInterfaces, isCapturing, error,
                 updateInterval, timers, startPending, stopPending,
                 pollPending, destroyed>>
  /\ UNCHANGED <<scanVars, ratingVars>>

\* <select bind:value={interfaceName}>: another interface is chosen
selectInterface(iface) ==
  /\ ~destroyed
  /\ iface \in {availableInterfaces[i] : i \in 1..Len(availableInterfaces)}
  /\ iface # interfaceName
  /\ op' = "selectInterface"
  /\ polled' = <<>>
  /\ interfaceName' = iface
  /\ InterfaceReset
  /\ UNCHANGED <<mountPc, availableInterfaces, isCapturing, error,
                 updateInterval, timers, startPending, stopPending,
                 pollPending, destroyed>>
  /\ UNCHANGED <<scanVars, ratingVars>>

\* startCapture, up to `await startPacketCapture(interfaceName)`
startCapture ==
  /\ ~destroyed
  /\ startPending < MaxStartPending
  /\ op' = "startCapture"
  /\ polled' = <<>>
  /\ startPending' = startPending + 1
  /\ UNCHANGED <<mountPc, availableInterfaces, interfaceName, isCapturing,
                 error, updateInterval, timers, stopPending, pollPending,
                 allPackets, displayedPackets, currentPage, destroyed>>
  /\ UNCHANGED <<scanVars, ratingVars>>

\* startPacketCapture() resolved
StartResolve ==
  /\ startPending > 0
  /\ Cardinality(timers) < MaxTimers
  /\ op' = "StartResolve"
  /\ polled' = <<>>
  /\ startPending' = startPending - 1
  /\ isCapturing' = TRUE
  /\ error' = "null"
  /\ updateInterval' = FreshTimer
  /\ timers' = timers \cup {FreshTimer}
  /\ UNCHANGED <<mountPc, availableInterfaces, interfaceName, stopPending,
                 pollPending, allPackets, displayedPackets, currentPage,
                 destroyed>>
  /\ UNCHANGED <<scanVars, ratingVars>>

\* variant of StartReject for a startCapture that marks the session and
\* starts polling before the engine has answered
StartReject_optimistic ==
  /\ startPending > 0
  /\ Cardinality(timers) < MaxTimers
  /\ op' = "StartReject"
  /\ polled' = <<>>
  /\ startPending' = startPending - 1
  /\ isCapturing' = TRUE
  /\ updateInterval' = FreshTimer
  /\ timers' = timers \cup {FreshTimer}
  /\ error' = "start"
  /\ UNCHANGED <<mountPc, availableInterfaces, interfaceName, stopPending,
                 pollPending, allPackets, displayedPackets, currentPage,
                 destroyed>>
  /\ UNCHANGED <<scanVars, ratingVars>>

\* startPacketCapture() rejected
StartReject ==
  /\ startPending > 0
  /\ op' = "StartReject"
  /\ polled' = <<>>
  /\ startPending' = startPending - 1
  /\ error' = "start"
  /\ UNCHANGED <<mountPc, availableInterfaces, interfaceName, isCapturing,
                 updateInterval, timers, stopPending, pollPending,
                 allPackets, displayedPackets, currentPage, destroyed>>
  /\ UNCHANGED <<scanVars, ratingVars>>

\* stopCapture, up to `await stopPacketCapture()`
stopCapture ==
  /\ ~destroyed
  /\ stopPending < MaxStopPending
  /\ op' = "stopCapture"
  /\ polled' = <<>>
  /\ stopPending' = stopPending + 1
  /\ UNCHANGED <<mountPc, availableInterfaces, interfaceName, isCapturing,
                 error, updateInterval, timers, startPending, pollPending,
                 allPackets, displayedPackets, currentPage, destroyed>>
  /\ UNCHANGED <<scanVars, ratingVars>>

\* variant of StopResolve that toggles the status instead of clearing it
StopResolve_toggle ==
  /\ stopPending > 0
  /\ op' = "StopResolve"
  /\ polled' = <<>>
  /\ stopPending' = stopPending - 1
  /\ isCapturing' = ~isCapturing
  /\ error' = "null"
  /\ timers' = IF updateInterval # 0
               THEN ClearInterval(timers, updateInterval)
               ELSE timers
  /\ UNCHANGED <<mountPc, availableInterfaces, interfaceName, updateInterval,
                 startPending, pollPending, allPackets, displayedPackets,
                 currentPage, destroyed>>
  /\ UNCHANGED <<scanVars, ratingVars>>

\* stopPacketCapture() resolved
StopResolve ==
  /\ stopPending > 0
  /\ op' = "StopResolve"
  /\ polled' = <<>>
  /\ stopPending' = stopPending - 1
  /\ isCapturing' = FALSE
  /\ error' = "null"
  /\ timers' = IF updateInterval # 0
               THEN ClearInterval(timers, updateInterval)
               ELSE timers
  /\ UNCHANGED <<mountPc, availableInterfaces, interfaceName, updateInterval,
                 startPending, pollPending, allPackets, displayedPackets,
                 currentPage, destroyed>>
  /\ UNCHANGED <<scanVars, ratingVars>>

\* stopPacketCapture() rejected
StopReject ==
  /\ stopPending > 0
  /\ op' = "StopReject"
  /\ polled' = <<>>
  /\ stopPending' = stopPending - 1
  /\ error' = "stop"
  /\ UNCHANGED <<mountPc, availableInterfaces, interfaceName, isCapturing,
                 updateInterval, timers, startPending, pollPending,
                 allPackets, displayedPackets, currentPage, destroyed>>
  /\ UNCHANGED <<scanVars, ratingVars>>

\* a running interval timer fires: fetchLatestPackets, up to its await
Tick(handle) ==
  /\ handle \in timers
  /\ pollPending < MaxPollPending
  /\ op' = "Tick"
  /\ polled' = <<>>
  /\ pollPending' = pollPending + 1
  /\ UNCHANGED <<mountPc, availableInterfaces, interfaceName, isCapturing,
                 error, updateInterval, timers, startPending, stopPending,
                 allPackets, displayedPackets, currentPage, destroyed>>
  /\ UNCHANGED <<scanVars, ratingVars>>

\* variant of PollDeliver that appends the new packets without sorting
PollDeliver_unsorted(newPackets) ==
  /\ pollPending > 0
  /\ op' = "PollResolve"
  /\ polled' = newPackets
  /\ pollPending' = pollPending - 1
  /\ IF Len(newPackets) > 0
     THEN /\ allPackets' = allPackets \o newPackets
          /\ displayedPackets' = DisplayedOf(allPackets', currentPage)
     ELSE UNCHANGED <<allPackets, displayedPackets>>
  /\ UNCHANGED <<mountPc, availableInterfaces, interfaceName, isCapturing,
                 error, updateInterval, timers, startPending, stopPending,
                 currentPage, destroyed>>
  /\ UNCHANGED <<scanVars, ratingVars>>

\* getLatestPackets() resolved with newPackets
PollDeliver(newPackets) ==
  /\ pollPending > 0
  /\ op' = "PollResolve"
  /\ polled' = newPackets
  /\ pollPending' = pollPending - 1
  /\ IF Len(newPackets) > 0
     THEN /\ allPackets' = SortDesc(allPackets \o newPackets)
          /\ displayedPackets' = DisplayedOf(allPackets', currentPage)
     ELSE UNCHANGED <<allPackets, displayedPackets>>
  /\ UNCHANGED <<mountPc, availableInterfaces, interfaceName, isCapturing,
                 error, updateInterval, timers, startPending, stopPending,
                 currentPage, destroyed>>
  /\ UNCHANGED <<scanVars, ratingVars>>

\* getLatestPackets() resolved, the buffer staying within MaxBuffer
PollResolve(newPackets) ==
  /\ Len(allPackets) + Len(newPackets) <= MaxBuffer
  /\ PollDeliver(newPackets)

\* variant of PollReject whose catch block ends the session
PollReject_stops ==
  /\ pollPending > 0
  /\ op' = "PollReject"
  /\ polled' = <<>>
  /\ pollPending' = pollPending - 1
  /\ isCapturing' = FALSE
  /\ timers' = ClearInterval(timers, updateInterval)
  /\ UNCHANGED <<mountPc, availableInterfaces, interfaceName, error,
                 updateInterval, startPending, stopPending, allPackets,
                 displayedPackets, currentPage, destroyed>>
  /\ UNCHANGED <<scanVars, ratingVars>>

\* getLatestPackets() rejected
PollReject ==
  /\ pollPending > 0
  /\ op' = "PollReject"
  /\ polled' = <<>>
  /\ pollPending' = pollPending - 1
  /\ UNCHANGED <<mountPc, availableInterfaces, interfaceName, isCapturing,
                 error, updateInterval, timers, startPending, stopPending,
                 allPackets, displayedPackets, currentPage, destroyed>>
  /\ UNCHANGED <<scanVars, ratingVars>>

\* Math.ceil(a / b) for a >= 0, b > 0
CeilDiv(a, b) == (a + b - 1) \div b

\* $: totalPages = Math.ceil(allPackets.length / packetsPerPage)
totalPages == CeilDiv(Len(allPackets), packetsPerPage)

\* variant of nextPage without the upper clamp
nextPage_noClamp ==
  /\ ~destroyed
  /\ op' = "nextPage"
  /\ polled' = <<>>
  /\ currentPage' = currentPage + 1
  /\ displayedPackets' = DisplayedOf(allPackets, currentPage')
  /\ UNCHANGED <<mountPc, availableInterfaces, interfaceName, isCapturing,
                 error, updateInterval, timers, startPending, stopPending,
                 pollPending, allPackets, destroyed>>
  /\ UNCHANGED <<scanVars, ratingVars>>

\* nextPage
nextPage ==
  /\ ~destroyed
  /\ op' = "nextPage"
  /\ polled' = <<>>
  /\ IF currentPage < CeilDiv(Len(allPackets), packetsPerPage)
     THEN /\ currentPage' = currentPage + 1
          /\ displayedPackets' = DisplayedOf(allPackets, currentPage')
     ELSE UNCHANGED <<currentPage, displayedPackets>>
  /\ UNCHANGED <<mountPc, availableInterfaces, interfaceName, isCapturing,
                 error, updateInterval, timers, startPending, stopPending,
                 pollPending, allPackets, destroyed>>
  /\ UNCHANGED <<scanVars, ratingVars>>

\* prevPage
prevPage ==
  /\ ~destroyed
  /\ op' = "prevPage"
  /\ polled' = <<>>
  /\ IF currentPage > 1
     THEN /\ currentPage' = currentPage - 1
          /\ displayedPackets' = DisplayedOf(allPackets, currentPage')
     ELSE UNCHANGED <<currentPage, displayedPackets>>
  /\ UNCHANGED <<mountPc, availableInterfaces, interfaceName, isCapturing,
                 error, updateInterval, timers, startPending, stopPending,
                 pollPending, allPackets, destroyed>>
  /\ UNCHANGED <<scanVars, ratingVars>>

\* onDestroy: stopCapture() is started, not awaited; the last handle is cleared
onDestroy ==
  /\ ~destroyed
  /\ op' = "onDestroy"
  /\ polled' = <<>>
  /\ destroyed' = TRUE
  /\ IF isCapturing
     THEN /\ stopPending < MaxStopPending
          /\ stopPending' = stopPending + 1
     ELSE UNCHANGED stopPending
  /\ timers' = IF updateInterval # 0
               THEN ClearInterval(timers, updateInterval)
               ELSE timers
  /\ UNCHANGED <<mountPc, availableInterfaces, interfaceName, isCapturing,
                 error, updateInterval, startPending, pollPending,
                 allPackets, displayedPackets, currentPage>>
  /\ UNCHANGED <<scanVars, ratingVars>>

\* ====================================================== ChannelRating.svelte

\* channelData.find((d) => d.channel === c): index of the first match, or 0
FindChannel(data, c) ==
  IF \E i \in 1..Len(data) : data[i].channel = c
  THEN CHOOSE i \in 1..Len(data) :
         /\ data[i].channel = c
         /\ \A j \in 1..(i - 1) : data[j].channel # c
  ELSE 0

\* $: normalizedData = Array.from({ length: 13 }, (_, i) => existing || zero)
Normalize(data) ==
  [c \in 1..ChannelCount |->
     IF FindChannel(data, c) # 0
     THEN data[FindChannel(data, c)]
     ELSE [channel |-> c, occupancy |-> 0]]

\* the comparator of the table sort
Compare(key, a, b) ==
  IF key = "channel" THEN a.channel - b.channel
  ELSE b.occupancy - a.occupancy

\* Array.prototype.sort is stable: x goes behind every entry not after it
RECURSIVE InsertStable(_, _, _)
InsertStable(sorted, x, key) ==
  IF sorted = <<>> THEN <<x>>
  ELSE IF Compare(key, Head(sorted), x) <= 0
       THEN <<Head(sorted)>> \o InsertStable(Tail(sorted), x, key)
       ELSE <<x>> \o sorted

RECURSIVE StableSort(_, _)
StableSort(s, key) ==
  IF s = <<>> THEN <<>>
  ELSE InsertStable(StableSort(SubSeq(s, 1, Len(s) - 1), key), s[Len(s)], key)

normalizedData == Normalize(channelData)

\* $: sortedData = [...normalizedData].sort(...)
sortedData == StableSort(normalizedData, sortBy)

\* ChannelGraph.svelte: [...channelData].sort((a, b) => a.channel - b.channel)
graphSortedData == StableSort(channelData, "channel")

getChannelQuality(occupancy) ==
  IF occupancy < 30 THEN "Excellent"
  ELSE IF occupancy < 50 THEN "Good"
  ELSE IF occupancy < 70 THEN "Fair"
  ELSE "Poor"

\* variant of Recommendation whose upper threshold is strict
Recommendation_strict(occupancy) ==
  IF occupancy < 30 THEN "Recommended, low traffic"
  ELSE IF occupancy > 70 THEN "Avoid - high congestion"
  ELSE "Usable with caution"

\* the {#if} chain of the Recommendation column
Recommendation(occupancy) ==
  IF occupancy < 30 THEN "Recommended, low traffic"
  ELSE IF occupancy >= 70 THEN "Avoid - high congestion"
  ELSE "Usable with caution"

\* <select bind:value={sortBy}>
selectSort(key) ==
  /\ key # sortBy
  /\ op' = "selectSort"
  /\ polled' = <<>>
  /\ sortBy' = key
  /\ UNCHANGED <<scanVars, captureVars>>

\* ====================================================== initial state
InitOtherThanChannelData ==
  /\ networks = <<>>
  /\ uniqueNetworks = <<>>
  /\ isScanning = FALSE
  /\ scanPc = "idle"
  /\ channelReq = <<>>
  /\ listeners = 0
  /\ observed = <<>>
  /\ recomputeReqs = SetToBag({get_channel_data(<<>>)})
  /\ mountPc = "loading"
  /\ availableInterfaces = <<>>
  /\ interfaceName = ""
  /\ isCapturing = FALSE
  /\ error = "null"
  /\ updateInterval = 0
  /\ timers = {}
  /\ startPending = 0
  /\ stopPending = 0
  /\ pollPending = 0
  /\ allPackets = <<>>
  /\ displayedPackets = <<>>
  /\ currentPage = 1
  /\ destroyed = FALSE
  /\ sortBy = "channel"
  /\ op = "init"
  /\ polled = <<>>

Init ==
  /\ channelData = <<>>
  /\ InitOtherThanChannelData

\* ====================================================== scan coordinator
ScanNext ==
  \/ performScan
  \/ ListenResolve
  \/ ListenReject
  \/ \E batch \in NetworkBatches : ProgressEvent(batch)
  \/ \E finalNetworks \in NetworkBatches : ScanResolve(finalNetworks)
  \/ ScanReject
  \/ ChannelResolve
  \/ ChannelReject
  \/ \E data \in BagToSet(recomputeReqs) : RecomputeResolve(data)

ScanSpec == Init /\ [][ScanNext]_vars

\* ====================================================== scan properties
Range(s) == {s[i] : i \in 1..Len(s)}
ObservedIds == {observed[i].bssid : i \in 1..Len(observed)}
LastIndex(b) ==
  CHOOSE i \in 1..Len(observed) :
    /\ observed[i].bssid = b
    /\ \A j \in (i + 1)..Len(observed) : observed[j].bssid # b
LastObservation(b) == observed[LastIndex(b)]

\* C1: once performScan has resolved, the published snapshot holds exactly
\* one record per bssid observed in that scan (progress batches and final
\* batch), and each record equals the last observation of its bssid in
\* arrival order.
C1_MergeCorrect ==
  scanPc = "idle" =>
    /\ Len(networks) = Cardinality(ObservedIds)
    /\ \A b \in ObservedIds : LastObservation(b) \in Range(networks)

\* A/ch6, B/ch6, A/ch11 were observed in this order, the final call and the
\* occupancy request have resolved, and the snapshot is A/ch11, B/ch6.
C1_Witness ==
  /\ scanPc = "idle"
  /\ op = "ChannelResolve"
  /\ observed = <<[bssid |-> "A", channel |-> 6],
                  [bssid |-> "B", channel |-> 6],
                  [bssid |-> "A", channel |-> 11]>>
  /\ networks = <<[bssid |-> "A", channel |-> 11],
                  [bssid |-> "B", channel |-> 6]>>

\* C7: performScan called while isScanning returns at once: the store, the
\* snapshot, the subscriptions, the pending engine call and the flag are
\* all left as they were.
C7_ScanWhileScanningIsNoOp ==
  [][(op' = "performScan" /\ isScanning) => UNCHANGED scanVars]_vars

\* performScan was called while the final scan request was in flight and
\* records had been merged already.
C7_Witness ==
  /\ op = "performScan"
  /\ scanPc = "scan"
  /\ isScanning
  /\ Len(networks) = 2

\* C8 (as claimed): whenever no scan is in progress, no progress
\* subscription is live.
C8_NoLeakedSubscription ==
  ~isScanning => listeners = 0

\* C9: a performScan call that has no engine call outstanding any more,
\* whichever await failed or succeeded, has reset isScanning, so the next
\* performScan is accepted.
C9_ScanReturnsToIdle ==
  scanPc = "idle" => ~isScanning

\* the occupancy request of a scan was rejected and the coordinator is idle
C9_Witness ==
  /\ op = "ChannelReject"
  /\ scanPc = "idle"
  /\ ~isScanning

\* C10: right after the final scan call has failed, every record merged by
\* the progress events of that scan is still in the store and in the
\* published snapshot.
C10_ProgressSurvivesScanFailure ==
  op = "ScanReject" =>
    /\ \A b \in ObservedIds :
         /\ LastObservation(b) \in Range(uniqueNetworks)
         /\ LastObservation(b) \in Range(networks)
    /\ scanPc = "idle"

\* the final call failed after progress events had delivered two networks
C10_Witness ==
  /\ op = "ScanReject"
  /\ scanPc = "idle"
  /\ Cardinality(ObservedIds) = 2
  /\ Len(networks) = 2

\* C22 (as claimed): once a scan has completed (every await of performScan
\* resolved, so that no subscription is left behind) and no occupancy call
\* is in flight any more, the held channel metrics are those computed from
\* the final snapshot, in whatever order the responses arrived.
C22_MetricsFromFinalSnapshot ==
  (scanPc = "idle" /\ listeners = 0 /\ observed # <<>>
     /\ recomputeReqs = EmptyBag)
    => channelData = get_channel_data(networks)

\* C23: an accepted performScan empties the store and the snapshot before
\* anything of the new scan is merged, and from then on every identity in
\* the store and in the snapshot is one observed in the current scan: none
\* is left over from an earlier scan.
C23_NoIdentityOfEarlierScan ==
  [][/\ (op' = "performScan" /\ ~isScanning) =>
          (uniqueNetworks' = <<>> /\ networks' = <<>>)
     /\ {networks'[i].bssid : i \in 1..Len(networks')} \subseteq ObservedIds'
     /\ {uniqueNetworks'[i].bssid : i \in 1..Len(uniqueNetworks')}
          \subseteq ObservedIds']_vars

\* the held metrics show two networks on channel 6, which an earlier scan
\* found (A and B); the current scan has resolved with B on channel 11
\* only, and the snapshot holds just that record
C23_Witness ==
  /\ op = "ScanResolve"
  /\ scanPc = "channel"
  /\ channelData = <<[channel |-> 6, occupancy |-> 20]>>
  /\ observed = <<[bssid |-> "B", channel |-> 11]>>
  /\ networks = <<[bssid |-> "B", channel |-> 11]>>
  /\ uniqueNetworks = networks

\* ====================================================== capture session
CaptureNext ==
  \/ \E devices \in DeviceLists : MountResolve(devices)
  \/ MountReject
  \/ \E iface \in Interfaces : selectInterface(iface)
  \/ startCapture
  \/ StartResolve
  \/ StartReject
  \/ stopCapture
  \/ StopResolve
  \/ StopReject
  \/ \E handle \in 1..(MaxTimers + 1) : Tick(handle)
  \/ \E newPackets \in PacketBatches : PollResolve(newPackets)
  \/ PollReject
  \/ onDestroy

CaptureSpec == Init /\ [][CaptureNext]_vars

\* ====================================================== rating view
\* ChannelRating and ChannelGraph mounted with some channelData
RatingInit ==
  /\ channelData \in RatingInputs
  /\ InitOtherThanChannelData

RatingNext ==
  \E key \in {"channel", "occupancy"} : selectSort(key)

RatingSpec == RatingInit /\ [][RatingNext]_vars

\* ====================================================== paging
\* One session at a time (start while Idle with no start pending, stop while
\* Capturing with no stop pending, one poll in flight), fed with polls large
\* enough to fill several pages.
FullPage == [i \in 1..packetsPerPage |-> 1 + (i % 2)]
PageBatches == {<<>>, <<1>>, <<2>>, FullPage}

PageNext ==
  \/ \E devices \in DeviceLists : MountResolve(devices)
  \/ \E iface \in Interfaces : selectInterface(iface)
  \/ (~isCapturing /\ startPending = 0 /\ startCapture)
  \/ StartResolve
  \/ (isCapturing /\ stopPending = 0 /\ stopCapture)
  \/ StopResolve
  \/ \E handle \in 1..(MaxTimers + 1) : (pollPending = 0 /\ Tick(handle))
  \/ \E newPackets \in PageBatches :
       /\ Len(allPackets) + Len(newPackets) <= PageBufferCap
       /\ PollDeliver(newPackets)
  \/ nextPage
  \/ prevPage

PageSpec == Init /\ [][PageNext]_vars

\* ====================================================== capture properties

\* C2 (as claimed): when a stopPacketCapture call has settled, resolved or
\* rejected, the session is Idle and no polling timer is running.
C2_StopAlwaysIdle ==
  op \in {"StopResolve", "StopReject"} => (~isCapturing /\ timers = {})

\* C3 (as claimed): an interface change made while Capturing stops the
\* polling, makes the session Idle and discards buffer and displayed page.
C3_InterfaceChangeForcesIdle ==
  [][(op' = "selectInterface" /\ isCapturing) =>
       /\ ~isCapturing'
       /\ timers' = {}
       /\ allPackets' = <<>>
       /\ displayedPackets' = <<>>]_vars

\* C4 (as claimed): at most one polling timer is running.
C4_AtMostOneTimer ==
  Cardinality(timers) <= 1

\* C5 (as claimed): once the component is destroyed no polling timer is
\* running, whatever was in flight when it was destroyed.
C5_NoTimerAfterDestroy ==
  destroyed => timers = {}

\* C6 (as claimed): startCapture called while the session is Capturing or
\* while an earlier start is pending issues no further engine start.
C6_SecondStartRejected ==
  [][(op' = "startCapture" /\ (isCapturing \/ startPending > 0)) =>
       startPending' = startPending]_vars

\* C11 (as claimed): a rejected start, stop or interface listing leaves its
\* message in `error`; a start rejected while Idle leaves the session Idle
\* and a rejected stop leaves the session Idle.
C11_FailuresSurfacedAndIdle ==
  [][/\ (op' = "MountReject" => error' = "init")
     /\ (op' = "StartReject" =>
           (error' = "start" /\ (~isCapturing => ~isCapturing')))
     /\ (op' = "StopReject" => (error' = "stop" /\ ~isCapturing'))]_vars

\* C12: the session becomes Capturing, and a polling timer is created, only
\* in the continuation of an accepted start, which stores the handle of the
\* timer it creates; a rejected start changes neither the status, the
\* timers, the stored handle nor the buffer, and reports the error.
C12_StartOnlyOnAccept ==
  [][/\ (op' = "StartReject" =>
           /\ UNCHANGED <<isCapturing, timers, updateInterval, allPackets,
                          displayedPackets>>
           /\ error' = "start")
     /\ (op' = "StartResolve" =>
           /\ isCapturing'
           /\ updateInterval' \in timers' \ timers
           /\ error' = "null")
     /\ ((~isCapturing /\ isCapturing') => op' = "StartResolve")
     /\ (timers' \ timers # {} => op' = "StartResolve")]_vars

\* a start was rejected while Idle: still Idle, no timer, error reported
C12_Witness ==
  /\ op = "StartReject"
  /\ ~isCapturing
  /\ timers = {}
  /\ updateInterval = 0
  /\ error = "start"

\* C13: a rejected poll changes nothing but the count of polls in flight:
\* the status, the running timers, the buffer, the page and the displayed
\* page stay as they were.
C13_PollFailureKeepsSession ==
  [][op' = "PollReject" =>
       UNCHANGED <<isCapturing, timers, updateInterval, allPackets,
                   currentPage, displayedPackets, error>>]_vars

\* a poll was rejected in a capturing session that holds packets and whose
\* timer is still running
C13_Witness ==
  /\ op = "PollReject"
  /\ isCapturing
  /\ updateInterval \in timers
  /\ allPackets # <<>>
  /\ displayedPackets = allPackets

\* C19 (as claimed): an interface change made while Idle leaves the buffer,
\* the current page and the displayed packets as they were.
C19_IdleInterfaceChangeKeepsBuffer ==
  [][(op' = "selectInterface" /\ ~isCapturing) =>
       UNCHANGED <<allPackets, currentPage, displayedPackets>>]_vars

\* C19 (amended): an interface change made while Idle updates the selected
\* interface and also empties the buffer, resets the current page to 1 and
\* empties the displayed packets; status and timers are left alone.
C19_IdleInterfaceChangeResets ==
  [][(op' = "selectInterface" /\ ~isCapturing) =>
       /\ interfaceName' # interfaceName
       /\ allPackets' = <<>>
       /\ currentPage' = 1
       /\ displayedPackets' = <<>>
       /\ UNCHANGED <<isCapturing, timers, updateInterval>>]_vars

\* the interface was changed in an Idle session that had been capturing
\* (its timer handle is set and cleared) and the buffer is empty
C19_Witness ==
  /\ op = "selectInterface"
  /\ ~isCapturing
  /\ updateInterval # 0
  /\ timers = {}
  /\ allPackets = <<>>
  /\ displayedPackets = <<>>

\* C20: a stopCapture call, and the resolution or rejection of its engine
\* call, that finds the session Idle leaves it Idle and starts no timer.
C20_StopWhenIdleStaysIdle ==
  [][(op' \in {"stopCapture", "StopResolve", "StopReject"} /\ ~isCapturing)
       => (~isCapturing' /\ timers' \subseteq timers)]_vars

\* a stop call was rejected in a session that never captured: it is Idle,
\* no timer runs, and the error is reported
C20_Witness ==
  /\ op = "StopReject"
  /\ ~isCapturing
  /\ updateInterval = 0
  /\ timers = {}
  /\ error = "stop"

\* C21 (as claimed): the body of a poll tick runs to completion before the
\* next tick of the session fires.  Stated for the plainest case: while a
\* single timer is running, a tick never directly follows another tick,
\* because the poll issued by the earlier one is then still in flight.
C21_TicksDoNotOverlap ==
  [][~(op = "Tick" /\ op' = "Tick" /\ Cardinality(timers) = 1)]_vars

\* number of packets of s that carry timestamp t
Count(s, t) == Cardinality({i \in 1..Len(s) : s[i] = t})

\* C24: the buffer is always ordered newest first, and a resolved poll adds
\* each packet of its response exactly once and drops none of the packets
\* held before, in whatever order the responses of overlapping polls arrive.
C24_BufferSortedAndComplete ==
  [][/\ \A i \in 1..(Len(allPackets') - 1) :
          allPackets'[i] >= allPackets'[i + 1]
     /\ op' = "PollResolve" =>
          \A t \in Timestamps :
            Count(allPackets', t) = Count(allPackets, t) + Count(polled', t)]_vars

\* a poll answered with a packet newer than the one held, while another
\* poll was still in flight, and the new packet went to the front
C24_Witness ==
  /\ op = "PollResolve"
  /\ pollPending = 1
  /\ polled = <<2>>
  /\ allPackets = <<2, 1>>

\* C26 (as claimed): a poll response that is handled while the session is
\* Idle (polls are issued by a started session only, so it was stopped), or
\* right after an interface change (so the poll was issued before it), adds
\* nothing to the buffer.
C26_StalePollAddsNothing ==
  [][(op' = "PollResolve" /\ (~isCapturing \/ op = "selectInterface")) =>
       allPackets' = allPackets]_vars

\* ====================================================== paging properties

\* the last page of a buffer of L packets: max(1, ceil(L / packetsPerPage))
LastPage(L) ==
  CHOOSE n \in 1..(L + 1) :
    /\ n * packetsPerPage >= L
    /\ (n = 1 \/ (n - 1) * packetsPerPage < L)

\* C14 (as claimed): totalPages is max(1, ceil(L / p)) for the buffer
\* length L, so it is 1 for an empty buffer.
C14_TotalPagesAtLeastOne ==
  totalPages = LastPage(Len(allPackets))

\* C15: nextPage on the last page (page 1 for an empty buffer) and prevPage
\* on page 1 leave the current page and the displayed page as they were;
\* otherwise nextPage adds one to the current page and prevPage takes one off.
C15_PageNavigationClamped ==
  [][/\ (op' = "nextPage" =>
           IF currentPage = LastPage(Len(allPackets))
           THEN UNCHANGED <<currentPage, displayedPackets>>
           ELSE currentPage' = currentPage + 1)
     /\ (op' = "prevPage" =>
           IF currentPage = 1
           THEN UNCHANGED <<currentPage, displayedPackets>>
           ELSE currentPage' = currentPage - 1)]_vars

\* nextPage was called in a capturing session whose buffer is empty, and
\* the current page is still 1
C15_Witness ==
  /\ op = "nextPage"
  /\ isCapturing
  /\ allPackets = <<>>
  /\ currentPage = 1
  /\ displayedPackets = <<>>

\* C16: the displayed page is the part of the buffer from index (n - 1) * p
\* up to, not including, n * p, cut at the end of the buffer, n being the
\* current page and p the page size.
C16_DisplayedIsSlice ==
  LET L == Len(allPackets)
      lo == (currentPage - 1) * packetsPerPage
      cnt == IF L <= lo THEN 0
             ELSE IF L - lo < packetsPerPage THEN L - lo
             ELSE packetsPerPage
  IN  /\ Len(displayedPackets) = cnt
      /\ \A k \in 1..cnt : displayedPackets[k] = allPackets[lo + k]

\* a poll has just delivered the 25th packet while page 3 is shown, and the
\* page holds the last 5 packets
C16_Witness ==
  /\ op = "PollResolve"
  /\ Len(allPackets) = 25
  /\ currentPage = 3
  /\ Len(displayedPackets) = 5

\* C25: whatever the interleaving of polls, page navigation, start, stop
\* and interface changes, the current page n satisfies
\* 1 <= n <= max(1, ceil(L / p)) for the buffer length L and page size p.
C25_PageWithinRange ==
  /\ 1 <= currentPage
  /\ currentPage <= LastPage(Len(allPackets))

\* nextPage has just moved to page 3 of a buffer of 21 packets, its last page
C25_Witness ==
  /\ op = "nextPage"
  /\ isCapturing
  /\ Len(allPackets) = 21
  /\ currentPage = 3
  /\ Len(displayedPackets) = 1

\* ====================================================== rating properties

\* a list of metrics is total: 13 entries, entry c being channel c, with
\* occupancy 0 wherever the input has no entry for channel c
TotalOverChannels(out, input) ==
  /\ Len(out) = 13
  /\ \A c \in 1..13 :
       /\ out[c].channel = c
       /\ (\A i \in 1..Len(input) : input[i].channel # c)
            => out[c].occupancy = 0

\* C17 (as claimed): whatever the input, the metrics prepared by
\* ChannelRating and those prepared by ChannelGraph have 13 entries, one per
\* channel 1..13 in ascending order, with occupancy 0 for absent channels.
C17_OccupancyDomainTotal ==
  /\ TotalOverChannels(normalizedData, channelData)
  /\ TotalOverChannels(graphSortedData, channelData)

\* C18: in every row of the table the quality class follows the thresholds
\* 0.3, 0.5 and 0.7, and the recommendation agrees with the class:
\* recommended exactly for Excellent, avoid exactly for Poor, usable with
\* caution exactly for Good and Fair.
C18_QualityAndRecommendation ==
  \A row \in {sortedData[i] : i \in 1..Len(sortedData)} :
    LET o == row.occupancy
        q == getChannelQuality(o)
        r == Recommendation(o)
    IN  /\ q = "Excellent" <=> o < 30
        /\ q = "Good" <=> (30 <= o /\ o < 50)
        /\ q = "Fair" <=> (50 <= o /\ o < 70)
        /\ q = "Poor" <=> 70 <= o
        /\ r = "Recommended, low traffic" <=> q = "Excellent"
        /\ r = "Avoid - high congestion" <=> q = "Poor"
        /\ r = "Usable with caution" <=> q \in {"Good", "Fair"}

\* the table, sorted by occupancy, shows channel 6 at exactly 0.7 first,
\* classed Poor and to be avoided, then channel 13 at exactly 0.3, classed
\* Good and usable with caution, then the eleven empty channels
C18_Witness ==
  /\ op = "selectSort"
  /\ sortBy = "occupancy"
  /\ channelData = <<[channel |-> 13, occupancy |-> 30],
                     [channel |-> 6, occupancy |-> 70]>>
  /\ sortedData[1] = [channel |-> 6, occupancy |-> 70]
  /\ getChannelQuality(sortedData[1].occupancy) = "Poor"
  /\ Recommendation(sortedData[1].occupancy) = "Avoid - high congestion"
  /\ sortedData[2] = [channel |-> 13, occupancy |-> 30]
  /\ getChannelQuality(sortedData[2].occupancy) = "Good"
  /\ Recommendation(sortedData[2].occupancy) = "Usable with caution"
  /\ sortedData[3] = [channel |-> 1, occupancy |-> 0]

====
